---- MODULE Spec2Model ----
(***************************************************************************)
(* FileFinder of EasyRPG Player: path canonicalization, indexed directory  *)
(* trees, layered asset lookup and the RTP detection state (rtp_state).    *)
(*                                                                         *)
(* Build modelled: neither _WIN32 nor EMSCRIPTEN (the #else branches).     *)
(* A std::string is a sequence of one-character strings; "" is << >>.      *)
(* "Y" stands for U+00A5, the escape symbol of the Shift-JIS locale.       *)
(***************************************************************************)
EXTENDS Integers, Sequences, FiniteSets, TLC

VARIABLES
    escape_symbol,  \* Player::escape_symbol, one character
    pc,             \* position of the driver of the specification at hand
    c_path,         \* MakeCanonical: argument path
    c_depth,        \* MakeCanonical: argument initial_deepness
    c_canon,        \* MakeCanonical(c_path, c_depth)
    c_again,        \* MakeCanonical(c_canon, d') for some d'
    translation_id, \* Tr::GetCurrentTranslationId()
    l_disk,         \* tree lookup: the directory on disk the tree is built from
    l_tree,         \* tree lookup: CreateDirectoryTree(l_disk)
    l_req,          \* tree lookup: the arguments of the last FindFile(tree, ...)
    l_ret,          \* tree lookup: its result
    n_a, n_b,       \* narrowing: what LookupAnyToRtp answers for requests A and B
    n_ab, n_ba,     \* narrowing: game_rtp when A is requested first, when B is
    q_reqs,         \* narrowing: what LookupAnyToRtp answered, request by request
    q_trace,        \* narrowing: game_rtp after each of these requests
    h_info,         \* scoring: the hits RTP::Detect reports for a path
    s_entries,      \* scan: the listing of the directory that is scanned
    s_mode,         \* scan: the mode of the scan
    s_dir,          \* scan: the Directory GetDirectoryMembers returns
    rtp_state,      \* the RTP state of the file finder
    game_directory_tree, \* the tree of the active project, NoTree when null
    last_req,         \* the arguments of the last FindFile(dir, name, exts, tryTranslate)
    last_ret,         \* its result
    last_is_rtp_asset, \* is_rtp_asset as rtp_lookup left it, "unset" if not called
    rtp_before,     \* rtp_state when the last operation was called
    last_op,        \* the last operation: its name, "none" at the start
    init_args,      \* the arguments of the last InitRtpPaths and the paths it found
    warned,         \* the warning it emitted: "none", "broken" or "missing"
    oracle_calls,   \* the number of calls of LookupAnyToRtp it made
    lookups,        \* FindFile calls since InitRtpPaths
    log_missing,    \* "Cannot find" warnings since InitRtpPaths
    log_broken,     \* "claims it does not need the RTP" warnings since InitRtpPaths
    missing_cond,   \* requests since InitRtpPaths that miss an asset the RTP owns
    was_narrowed    \* game_rtp has been non-empty since InitRtpPaths

canonVars == <<c_path, c_depth, c_canon, c_again>>
lookupVars == <<l_disk, l_tree, l_req, l_ret>>
narrowVars == <<n_a, n_b, n_ab, n_ba>>
seqVars == <<q_reqs, q_trace>>
scoreVars == <<h_info>>
scanVars == <<s_entries, s_mode, s_dir>>
observed == <<last_req, last_ret, last_is_rtp_asset, rtp_before, last_op, init_args, warned, oracle_calls, lookups, log_missing, log_broken,
              missing_cond, was_narrowed>>
sessionVars == <<rtp_state, game_directory_tree, observed>>
vars == <<escape_symbol, pc, translation_id, canonVars, lookupVars, narrowVars, seqVars, scoreVars, scanVars, sessionVars>>

(***************************************************************************)
(* Bounds                                                                  *)
(***************************************************************************)
MaxSegs == 3
MaxDepth == 2
MaxEntries == 2
MaxLookups == 3
MaxRequests == 3
MaxHits == 3
MaxScore == 3
MaxScan == 3

(***************************************************************************)
(* Strings                                                                 *)
(***************************************************************************)
SLASH == "/"
BACKSLASH == "\\"
YEN == "Y"
EscapeSymbols == {BACKSLASH, YEN}

LowerOf == ("A" :> "a") @@ ("B" :> "b") @@ ("D" :> "d") @@ ("E" :> "e")
           @@ ("G" :> "g") @@ ("L" :> "l") @@ ("M" :> "m") @@ ("P" :> "p")
           @@ ("R" :> "r") @@ ("S" :> "s") @@ ("T" :> "t") @@ ("X" :> "x")

\* lcf::ReaderUtil::Normalize: case folding, character by character
Normalize(s) ==
    [i \in 1..Len(s) |-> IF s[i] \in DOMAIN LowerOf THEN LowerOf[s[i]] ELSE s[i]]

\* std::replace(str.begin(), str.end(), from, to)
Replace(s, from, to) == [i \in 1..Len(s) |-> IF s[i] = from THEN to ELSE s[i]]

\* FileFinder::MakePath
MakePath(dir, name) ==
    Replace(IF dir = << >> THEN name ELSE dir \o <<SLASH>> \o name,
            BACKSLASH, SLASH)

RECURSIVE TokenizeFrom(_, _, _, _)
TokenizeFrom(s, i, cur_token, delims) ==
    IF i > Len(s) THEN <<cur_token>>
    ELSE IF s[i] \in delims
         THEN <<cur_token>> \o TokenizeFrom(s, i + 1, << >>, delims)
         ELSE TokenizeFrom(s, i + 1, Append(cur_token, s[i]), delims)

\* Utils::Tokenize: every delimiter ends a token, empty tokens are kept
Tokenize(s, delims) == TokenizeFrom(s, 1, << >>, delims)

\* FileFinder::SplitPath
SplitPath(path) == Tokenize(path, {escape_symbol, SLASH})

RECURSIVE JoinPath(_, _, _)
JoinPath(path_can, i, ret) ==
    IF i > Len(path_can) THEN ret
    ELSE JoinPath(path_can, i + 1, MakePath(ret, path_can[i]))

RECURSIVE CanonicalFold(_, _, _, _)
CanonicalFold(path_components, i, path_can, initial_deepness) ==
    IF i > Len(path_components) THEN path_can
    ELSE LET path_comp == path_components[i] IN
         IF path_comp = <<".", ".">>
         THEN IF Len(path_can) > 0
              THEN CanonicalFold(path_components, i + 1,
                                 SubSeq(path_can, 1, Len(path_can) - 1), initial_deepness)
              ELSE IF initial_deepness > 0
                   THEN CanonicalFold(path_components, i + 1, path_can, initial_deepness - 1)
                   ELSE CanonicalFold(path_components, i + 1, path_can, initial_deepness)
         ELSE IF path_comp = << >> \/ path_comp = <<".">>
              THEN CanonicalFold(path_components, i + 1, path_can, initial_deepness)
              ELSE CanonicalFold(path_components, i + 1, Append(path_can, path_comp),
                                 initial_deepness)

\* FileFinder::MakeCanonical
MakeCanonical(path, initial_deepness) ==
    JoinPath(CanonicalFold(SplitPath(path), 1, << >>, initial_deepness), 1, << >>)

(***************************************************************************)
(* Directories on disk and their index (FileFinder::DirectoryTree)         *)
(***************************************************************************)
\* string_map: normalized key -> original name
EmptyMap == [k \in {} |-> << >>]
Put_KeepFirst(m, k, v) ==
    [x \in DOMAIN m \cup {k} |-> IF x \in DOMAIN m THEN m[x] ELSE v]

\* string_map::operator[](k) = v
Put(m, k, v) == [x \in DOMAIN m \cup {k} |-> IF x = k THEN v ELSE m[x]]
\* std::map::insert(first, last): keys already present keep their value
MapInsert(m, other) ==
    [x \in DOMAIN m \cup DOMAIN other |-> IF x \in DOMAIN m THEN m[x] ELSE other[x]]

\* what Platform::Directory reads: entries in the order Read() yields them
File(name) == [name |-> name, is_directory |-> FALSE, entries |-> << >>]
Dir(name, entries) == [name |-> name, is_directory |-> TRUE, entries |-> entries]
Disk(path, entries) == [path |-> path, is_directory |-> TRUE, entries |-> entries]
NoDisk == [path |-> << >>, is_directory |-> FALSE, entries |-> << >>]
NoTree == [directory_path |-> << >>, valid |-> FALSE]
NoRequest == [dir |-> << >>, name |-> << >>, exts |-> << >>, translate |-> FALSE]

\* the listing of the subdirectory `name` of a listing
ChildEntries(entries, name) ==
    LET hit == {i \in 1..Len(entries) : entries[i].name = name /\ entries[i].is_directory}
    IN  IF hit = {} THEN << >> ELSE entries[CHOOSE i \in hit : TRUE].entries

EmptyDirectory == [files |-> EmptyMap, directories |-> EmptyMap, warnings |-> 0]

RECURSIVE GetDirectoryMembers(_, _, _)
RECURSIVE ScanEntries(_, _, _, _, _)
\* the while (dir.Read()) loop of GetDirectoryMembers, from entry i on
ScanEntries(entries, i, m, parent, result) ==
    IF i > Len(entries) THEN result
    ELSE LET name == entries[i].name
             is_directory == entries[i].is_directory
             name_norm == Normalize(name)
         IN
         IF name = <<".">> \/ name = <<".", ".">>
         THEN ScanEntries(entries, i + 1, m, parent, result)
         ELSE IF (m = "FILES" /\ is_directory) \/ (m = "DIRECTORIES" /\ ~is_directory)
         THEN ScanEntries(entries, i + 1, m, parent, result)
         ELSE IF m = "RECURSIVE"
         THEN IF is_directory
              THEN LET rdir == GetDirectoryMembers(entries[i].entries, "RECURSIVE",
                                                   MakePath(parent, name))
                   IN  ScanEntries(entries, i + 1, m, parent,
                           [result EXCEPT
                               !.files = MapInsert(@, rdir.files),
                               !.directories = MapInsert(@, rdir.directories),
                               !.warnings = @ + rdir.warnings])
              ELSE ScanEntries(entries, i + 1, m, parent,
                       [result EXCEPT !.files = Put(@, Normalize(MakePath(parent, name)),
                                                    MakePath(parent, name))])
         ELSE IF is_directory
              THEN ScanEntries(entries, i + 1, m, parent,
                       [result EXCEPT
                           !.directories = Put(@, name_norm, name),
                           !.warnings = IF name_norm \in DOMAIN result.directories
                                        THEN @ + 1 ELSE @])
              ELSE ScanEntries(entries, i + 1, m, parent,
                       [result EXCEPT !.files = Put(@, name_norm, name)])

\* FileFinder::GetDirectoryMembers(path, m, parent); `entries` is the listing of path
GetDirectoryMembers(entries, m, parent) ==
    ScanEntries(entries, 1, m, parent, EmptyDirectory)

\* FileFinder::CreateDirectoryTree(p, mode)
CreateDirectoryTree(disk, mode) ==
    IF ~disk.is_directory THEN NoTree
    ELSE LET recursive == (mode = "RECURSIVE")
             mem == GetDirectoryMembers(disk.entries, IF recursive THEN "ALL" ELSE mode, << >>)
         IN  [ directory_path |-> disk.path,
               valid |-> TRUE,
               files |-> mem.files,
               directories |-> mem.directories,
               sub_members |->
                   IF recursive
                   THEN [k \in DOMAIN mem.directories |->
                            GetDirectoryMembers(
                                ChildEntries(disk.entries, mem.directories[k]),
                                "RECURSIVE", << >>).files]
                   ELSE EmptyMap ]

\* FileFinder::CreateSaveDirectoryTree(); disk is the directory at
\* Main_Data::GetSavePath()
CreateSaveDirectoryTree(disk) ==
    IF ~disk.is_directory THEN NoTree
    ELSE LET mem == GetDirectoryMembers(disk.entries, "FILES", << >>)
         IN  [ directory_path |-> disk.path,
               valid |-> TRUE,
               files |-> mem.files,
               directories |-> mem.directories,
               sub_members |-> EmptyMap ]

(***************************************************************************)
(* Lookup in one tree                                                      *)
(***************************************************************************)
\* Tr::GetTranslationDir()
TranslationDir == <<"L">>

\* FindDefault(tree, name) handing a name with a directory part over to
\* FindDefault(dir, name), which searches the active project and the RTP
LeftTree == <<"<", "project", ">">>
\* tree.sub_members.find(corrected_dir)->second with no such key
Dangling == <<"<", "end()", ">">>

\* std::string::find_first_of("/"): position of the first separator, 0 if none
FirstSlash(s) ==
    LET at == {i \in 1..Len(s) : s[i] = SLASH}
    IN  IF at = {} THEN 0 ELSE CHOOSE i \in at : \A j \in at : i <= j

\* FileFinder::FindDefault(tree, name)
FindDefaultTree(tree, name) ==
    IF Len(SplitPath(name)) > 1 THEN LeftTree
    ELSE IF Normalize(name) \in DOMAIN tree.files
         THEN MakePath(tree.directory_path, tree.files[Normalize(name)])
         ELSE << >>

RECURSIVE FindRootFile(_, _, _, _)
\* the loop over exts of the path-correction branch
FindRootFile(tree, canon, exts, c) ==
    IF c > Len(exts) THEN << >>
    ELSE LET res == FindDefaultTree(tree, canon \o exts[c])
         IN  IF res # << >> THEN res ELSE FindRootFile(tree, canon, exts, c + 1)

FindMember_RawName(tree, dir_name, dir_map, corrected_name, exts, c) ==
    MakePath(tree.directory_path \o <<SLASH>> \o dir_name, corrected_name)

FindMember_LastExt(tree, dir_name, dir_map, corrected_name, exts, c) ==
    LET hits == {k \in c..Len(exts) : (corrected_name \o exts[k]) \in DOMAIN dir_map}
    IN  IF hits = {} THEN << >>
        ELSE MakePath(tree.directory_path \o <<SLASH>> \o dir_name,
                      dir_map[corrected_name
                                  \o exts[CHOOSE k \in hits : \A j \in hits : j <= k]])

RECURSIVE FindMember(_, _, _, _, _, _)
\* the loop over exts of the indexed lookup
FindMember(tree, dir_name, dir_map, corrected_name, exts, c) ==
    IF c > Len(exts) THEN << >>
    ELSE IF (corrected_name \o exts[c]) \in DOMAIN dir_map
         THEN MakePath(tree.directory_path \o <<SLASH>> \o dir_name,
                       dir_map[corrected_name \o exts[c]])
         ELSE FindMember(tree, dir_name, dir_map, corrected_name, exts, c + 1)

FindFileTree_NoCorrection(tree, dir, name, exts, translate) ==
    IF translate /\ translation_id = << >> THEN << >>
    ELSE
    LET corrected_dir == Normalize(IF translate THEN TranslationDir ELSE dir)
        name0 == Normalize(IF translate
                           THEN MakePath(MakePath(translation_id, dir), name)
                           ELSE name)
        corrected_name == Replace(name0, escape_symbol, SLASH)
    IN
    IF corrected_dir \notin DOMAIN tree.directories THEN << >>
    ELSE IF corrected_dir \notin DOMAIN tree.sub_members THEN Dangling
    ELSE FindMember(tree, tree.directories[corrected_dir],
                    tree.sub_members[corrected_dir], corrected_name, exts, 1)

\* FindFile(tree, dir, name, exts, translate)
FindFileTree(tree, dir, name, exts, translate) ==
    IF translate /\ translation_id = << >> THEN << >>
    ELSE
    LET dir0 == Normalize(IF translate THEN TranslationDir ELSE dir)
        name0 == Normalize(IF translate
                           THEN MakePath(MakePath(translation_id, dir), name)
                           ELSE name)
        combined_path == MakePath(dir0, name0)
        canon == MakeCanonical(combined_path, 1)
        pos == FirstSlash(canon)
    IN
    IF combined_path # canon /\ pos = 0 THEN FindRootFile(tree, canon, exts, 1)
    ELSE
    LET corrected_dir == IF combined_path # canon THEN SubSeq(canon, 1, pos - 1) ELSE dir0
        name1 == IF combined_path # canon THEN SubSeq(canon, pos + 1, Len(canon)) ELSE name0
        corrected_name == Replace(name1, escape_symbol, SLASH)
    IN
    IF corrected_dir \notin DOMAIN tree.directories THEN << >>
    ELSE IF corrected_dir \notin DOMAIN tree.sub_members THEN Dangling
    ELSE FindMember(tree, tree.directories[corrected_dir],
                    tree.sub_members[corrected_dir], corrected_name, exts, 1)

(***************************************************************************)
(* RTP state and the RTP tables                                            *)
(***************************************************************************)
\* RTP::Type, in the order of the enumeration; V1..V4 are base RTP variants, V4 one
\* the RTP table of the engine version in use has no asset of
V1 == "V1"
V2 == "V2"
V3 == "V3"
V4 == "V4"
RPG2000_DonMiguelAddon == "RPG2000_DonMiguelAddon"
RtpTypes == <<V1, V2, V3, V4, RPG2000_DonMiguelAddon>>

Range(f) == {f[i] : i \in DOMAIN f}

\* rtp_state = {}
RtpStateDefault ==
    [ search_paths |-> << >>,
      disable_rtp |-> TRUE,
      game_has_full_package_flag |-> FALSE,
      warning_broken_rtp_game_shown |-> FALSE,
      detected_rtp |-> << >>,
      game_rtp |-> << >> ]

Picture == <<"P">>
Music == <<"M", "u", "s", "i", "c">>
Sound == <<"S", "o", "u", "n", "d">>
Absent == << >>

\* one row of the RTP table: the name of one asset in each RTP that ships it
Row(category, n1, n2, n3, addon) ==
    [ category |-> category,
      names |-> (V1 :> n1) @@ (V2 :> n2) @@ (V3 :> n3) @@ (V4 :> Absent)
                @@ (RPG2000_DonMiguelAddon :> addon) ]

\* the RTP table of the engine version in use; the add-on ships every asset
\* and one of its own, "d"; the sound "c" of V1 is another than the "c" of V3,
\* which V1 calls "k"
RtpTable ==
    << Row(Normalize(Picture), <<"a">>, <<"a">>, Absent, <<"a">>),
       Row(Normalize(Picture), Absent, <<"b">>, <<"b">>, <<"b">>),
       Row(Normalize(Picture), <<"k">>, Absent, <<"c">>, <<"c">>),
       Row(Normalize(Picture), Absent, Absent, Absent, <<"d">>),
       Row(Normalize(Music), <<"a">>, <<"a">>, Absent, <<"a">>),
       Row(Normalize(Music), Absent, Absent, <<"c">>, <<"c">>),
       Row(Normalize(Sound), <<"a">>, <<"a">>, Absent, <<"a">>),
       Row(Normalize(Sound), <<"c">>, Absent, <<"m">>, <<"c">>),
       Row(Normalize(Sound), <<"k">>, Absent, <<"c">>, Absent) >>

\* RTP::LookupAnyToRtp(dir, name, version): the RTPs that ship the asset
LookupAnyToRtp(dir, name) ==
    SelectSeq(RtpTypes,
              LAMBDA t : \E r \in 1..Len(RtpTable) :
                            RtpTable[r].category = dir /\ RtpTable[r].names[t] = name)

\* RTP::LookupRtpToRtp(dir, name, src, target, &is_rtp_asset)
LookupRtpToRtp(dir, name, src, target) ==
    LET rows == {r \in 1..Len(RtpTable) :
                    RtpTable[r].category = dir /\ RtpTable[r].names[src] = name}
    IN  IF rows = {} THEN [entry |-> << >>, is_rtp_asset |-> FALSE]
        ELSE [entry |-> RtpTable[CHOOSE r \in rows : \A q \in rows : r <= q].names[target],
              is_rtp_asset |-> TRUE]

RemoveAddon_Skipped(candidates) == candidates

\* std::find(RPG2000_DonMiguelAddon) and erase of the element found
RemoveAddon(candidates) ==
    LET at == {i \in 1..Len(candidates) : candidates[i] = RPG2000_DonMiguelAddon}
    IN  IF at = {} THEN candidates
        ELSE LET first == CHOOSE i \in at : \A j \in at : i <= j
             IN  SubSeq(candidates, 1, first - 1)
                     \o SubSeq(candidates, first + 1, Len(candidates))

NarrowGameRtp_NoIntersect(game_rtp, raw_candidates) ==
    IF Len(game_rtp) = 1 THEN game_rtp
    ELSE LET candidates == RemoveAddon(raw_candidates)
         IN  IF candidates = << >> THEN game_rtp
             ELSE IF game_rtp = << >> THEN candidates ELSE game_rtp

NarrowGameRtp_EmptyClears(game_rtp, raw_candidates) ==
    IF Len(game_rtp) = 1 THEN game_rtp
    ELSE LET candidates == RemoveAddon(raw_candidates)
         IN  IF game_rtp = << >> THEN candidates
             ELSE SelectSeq(game_rtp, LAMBDA t : t \in Range(candidates))

NarrowGameRtp_Replace(game_rtp, raw_candidates) ==
    IF Len(game_rtp) = 1 THEN game_rtp
    ELSE LET candidates == RemoveAddon(raw_candidates)
         IN  IF candidates = << >> THEN game_rtp ELSE candidates

\* rtp_lookup, detection of the RTP the game uses; raw_candidates is what
\* LookupAnyToRtp answers, asked only while game_rtp.size() != 1
NarrowGameRtp(game_rtp, raw_candidates) ==
    IF Len(game_rtp) = 1 THEN game_rtp
    ELSE LET candidates == RemoveAddon(raw_candidates)
         IN  IF candidates = << >> THEN game_rtp
             ELSE IF game_rtp = << >> THEN candidates
                  ELSE SelectSeq(game_rtp, LAMBDA t : t \in Range(candidates))

\* if (!ret.empty()) return ret; otherwise go on with the rest
OrElse(ret, rest) == IF ret # << >> THEN ret ELSE rest

RECURSIVE normal_search(_, _, _, _, _)
\* rtp_lookup::normal_search, from search path i on
normal_search(search_paths, i, dir, name, exts) ==
    IF i > Len(search_paths) THEN << >>
    ELSE OrElse(FindFileTree(search_paths[i], dir, name, exts, FALSE),
                normal_search(search_paths, i + 1, dir, name, exts))

\* FindFile(*rtp.tree, dir, rtp_entry, exts) if LookupRtpToRtp names an entry
FindRtpEntry(tree, dir, rtp_entry, exts) ==
    IF rtp_entry = << >> THEN << >> ELSE FindFileTree(tree, dir, rtp_entry, exts, FALSE)

RECURSIVE SearchAcrossRtp_LastHit(_, _, _, _, _, _)
SearchAcrossRtp_LastHit(st, i, j, dir, name, exts) ==
    IF i > Len(st.detected_rtp) THEN << >>
    ELSE IF j > Len(st.game_rtp) THEN SearchAcrossRtp_LastHit(st, i + 1, 1, dir, name, exts)
    ELSE OrElse(SearchAcrossRtp_LastHit(st, i, j + 1, dir, name, exts),
                FindRtpEntry(st.detected_rtp[i].tree, dir,
                             LookupRtpToRtp(dir, name, st.game_rtp[j],
                                            st.detected_rtp[i].type).entry,
                             exts))

RECURSIVE SearchAcrossRtp(_, _, _, _, _, _)
\* rtp_lookup, "Search across all RTP": detected_rtp[i] outer, game_rtp[j] inner
SearchAcrossRtp(st, i, j, dir, name, exts) ==
    IF i > Len(st.detected_rtp) THEN << >>
    ELSE IF j > Len(st.game_rtp) THEN SearchAcrossRtp(st, i + 1, 1, dir, name, exts)
    ELSE OrElse(FindRtpEntry(st.detected_rtp[i].tree, dir,
                             LookupRtpToRtp(dir, name, st.game_rtp[j],
                                            st.detected_rtp[i].type).entry,
                             exts),
                SearchAcrossRtp(st, i, j + 1, dir, name, exts))

OrNormalSearch_FlagNotCleared(found, st, dir, name, exts) ==
    IF found # << >> THEN [ret |-> found, is_rtp_asset |-> TRUE]
    ELSE [ret |-> normal_search(st.search_paths, 1, dir, name, exts),
          is_rtp_asset |-> \E i \in DOMAIN st.detected_rtp :
                              \E j \in DOMAIN st.game_rtp :
                                  LookupRtpToRtp(dir, name, st.game_rtp[j],
                                                 st.detected_rtp[i].type).is_rtp_asset]

\* the end of rtp_lookup: is_rtp_asset leaves as true on a hit of the search
\* across all RTP and as false otherwise, since normal_search assigns false
\* before it searches
OrNormalSearch(found, st, dir, name, exts) ==
    IF found # << >> THEN [ret |-> found, is_rtp_asset |-> TRUE]
    ELSE [ret |-> normal_search(st.search_paths, 1, dir, name, exts),
          is_rtp_asset |-> FALSE]

\* rtp_lookup from "if (rtp_state.game_rtp.empty())" on
RtpSearch(st, dir, name, exts) ==
    OrNormalSearch(IF st.game_rtp = << >> THEN << >>
                   ELSE SearchAcrossRtp(st, 1, 1, dir, name, exts),
                   st, dir, name, exts)

\* rtp_lookup once game_rtp is narrowed; asked tells whether LookupAnyToRtp was called
SearchNarrowed(narrowed, asked, dir, name, exts) ==
    RtpSearch(narrowed, dir, name, exts)
        @@ [state |-> narrowed, oracle_calls |-> IF asked THEN 1 ELSE 0]

rtp_lookup_AlwaysAsks(st, dir, name, exts) ==
    SearchNarrowed([st EXCEPT !.game_rtp = NarrowGameRtp(@, LookupAnyToRtp(dir, name))],
                   TRUE, dir, name, exts)

\* rtp_lookup(dir, name, exts, is_rtp_asset): the result, the flag, the state
\* it leaves and the number of calls of LookupAnyToRtp
rtp_lookup(st, dir, name, exts) ==
    SearchNarrowed(IF Len(st.game_rtp) # 1
                   THEN [st EXCEPT !.game_rtp = NarrowGameRtp(@, LookupAnyToRtp(dir, name))]
                   ELSE st,
                   Len(st.game_rtp) # 1, dir, name, exts)

ProjectLayers_ProjectFirst(tree, dir, name, exts, tryTranslate) ==
    OrElse(FindFileTree(tree, dir, name, exts, FALSE),
           IF tryTranslate THEN FindFileTree(tree, dir, name, exts, TRUE) ELSE << >>)

\* FindFile(dir, name, exts, tryTranslate) up to "True RTP if enabled"
ProjectLayers(tree, dir, name, exts, tryTranslate) ==
    OrElse(IF tryTranslate THEN FindFileTree(tree, dir, name, exts, TRUE) ELSE << >>,
           FindFileTree(tree, dir, name, exts, FALSE))

RtpEnabled_Always(st) == TRUE

\* if (!rtp_state.disable_rtp)
RtpEnabled(st) == ~st.disable_rtp

\* FindFile(dir, ...) that does not come to rtp_lookup; its local is_rtp_asset
\* is "unset", and "true" or "false" once rtp_lookup has assigned it
FoundWithoutRtp(ret, st) ==
    [ret |-> ret, state |-> st, warning |-> "none", oracle_calls |-> 0,
     is_rtp_asset |-> "unset"]

WarnOfRtp_NoLatch(l, dir) ==
    LET lcase == Normalize(dir)
        is_audio_asset == lcase = <<"m", "u", "s", "i", "c">> \/ lcase = <<"s", "o", "u", "n", "d">>
        broken == /\ l.is_rtp_asset
                  /\ l.ret # << >>
                  /\ l.state.game_has_full_package_flag
                  /\ ~l.state.warning_broken_rtp_game_shown
                  /\ ~is_audio_asset
    IN  [ret |-> l.ret,
         state |-> l.state,
         warning |-> IF broken THEN "broken" ELSE "none",
         oracle_calls |-> l.oracle_calls,
         is_rtp_asset |-> IF l.is_rtp_asset THEN "true" ELSE "false"]

WarnOfRtp_AudioToo(l, dir) ==
    LET broken == /\ l.is_rtp_asset
                  /\ l.ret # << >>
                  /\ l.state.game_has_full_package_flag
                  /\ ~l.state.warning_broken_rtp_game_shown
    IN  [ret |-> l.ret,
         state |-> IF broken THEN [l.state EXCEPT !.warning_broken_rtp_game_shown = TRUE]
                   ELSE l.state,
         warning |-> IF broken THEN "broken" ELSE "none",
         oracle_calls |-> l.oracle_calls,
         is_rtp_asset |-> IF l.is_rtp_asset THEN "true" ELSE "false"]

\* FindFile(dir, ...) after rtp_lookup has answered l: the two warnings
WarnOfRtp(l, dir) ==
    LET lcase == Normalize(dir)
        is_audio_asset == lcase = <<"m", "u", "s", "i", "c">> \/ lcase = <<"s", "o", "u", "n", "d">>
        broken == /\ l.is_rtp_asset
                  /\ l.ret # << >>
                  /\ l.state.game_has_full_package_flag
                  /\ ~l.state.warning_broken_rtp_game_shown
                  /\ ~is_audio_asset
        missing == /\ l.is_rtp_asset
                   /\ ~broken
                   /\ l.ret = << >>
                   /\ ~l.state.game_has_full_package_flag
                   /\ ~is_audio_asset
    IN  [ret |-> l.ret,
         state |-> IF broken THEN [l.state EXCEPT !.warning_broken_rtp_game_shown = TRUE]
                   ELSE l.state,
         warning |-> IF broken THEN "broken" ELSE IF missing THEN "missing" ELSE "none",
         oracle_calls |-> l.oracle_calls,
         is_rtp_asset |-> IF l.is_rtp_asset THEN "true" ELSE "false"]

FindInRtp_AlwaysLooksUp(ret, st, dir, name, exts) ==
    IF ~RtpEnabled(st) THEN FoundWithoutRtp(ret, st)
    ELSE [WarnOfRtp(rtp_lookup(st, Normalize(dir), Normalize(name), exts), dir)
              EXCEPT !.ret = OrElse(ret, @)]

\* FindFile(dir, ...) from "True RTP if enabled" on; ret is what the project gave
FindInRtp(ret, st, dir, name, exts) ==
    IF ret # << >> \/ ~RtpEnabled(st) THEN FoundWithoutRtp(ret, st)
    ELSE WarnOfRtp(rtp_lookup(st, Normalize(dir), Normalize(name), exts), dir)

\* FindFile(dir, name, exts, tryTranslate): the result, the state it leaves,
\* the warning it emits and the number of calls of LookupAnyToRtp
FindFile(st, tree, dir, name, exts, tryTranslate) ==
    FindInRtp(ProjectLayers(tree, dir, name, exts, tryTranslate), st, dir, name, exts)

RECURSIVE BestHits_StrictlyBetter(_, _, _, _, _)
BestHits_StrictlyBetter(hit_info, i, tree, best_hits, best_max) ==
    IF i > Len(hit_info) THEN << >>
    ELSE IF hit_info[i].hits * best_max > best_hits * hit_info[i].max
         THEN <<[type |-> hit_info[i].type, tree |-> tree,
                 hits |-> hit_info[i].hits, max |-> hit_info[i].max]>>
              \o BestHits_StrictlyBetter(hit_info, i + 1, tree,
                                         hit_info[i].hits, hit_info[i].max)
         ELSE BestHits_StrictlyBetter(hit_info, i + 1, tree, best_hits, best_max)

\* the loop over hit_info of add_rtp_path, from hit i on; best is a fraction
RECURSIVE BestHits(_, _, _, _, _)
BestHits(hit_info, i, tree, best_hits, best_max) ==
    IF i > Len(hit_info) THEN << >>
    ELSE IF hit_info[i].hits * best_max >= best_hits * hit_info[i].max
         THEN <<[type |-> hit_info[i].type, tree |-> tree,
                 hits |-> hit_info[i].hits, max |-> hit_info[i].max]>>
              \o BestHits(hit_info, i + 1, tree, hit_info[i].hits, hit_info[i].max)
         ELSE BestHits(hit_info, i + 1, tree, best_hits, best_max)

\* add_rtp_path(p) with tree = CreateDirectoryTree(p)
AddTree(st, tree, hit_info) ==
    IF ~tree.valid THEN st
    ELSE [st EXCEPT !.search_paths = Append(@, tree),
                    !.detected_rtp = @ \o BestHits(hit_info, 1, tree, 0, 1)]

\* add_rtp_path(p); install is the directory at p and what RTP::Detect says of it
add_rtp_path(st, install) ==
    AddTree(st, CreateDirectoryTree(install.disk, "RECURSIVE"), install.detect)

RECURSIVE AddRtpPaths_StopsAtInvalid(_, _, _)
AddRtpPaths_StopsAtInvalid(st, installs, i) ==
    IF i > Len(installs) \/ ~installs[i].disk.is_directory THEN st
    ELSE AddRtpPaths_StopsAtInvalid(add_rtp_path(st, installs[i]), installs, i + 1)

RECURSIVE AddRtpPaths(_, _, _)
AddRtpPaths(st, installs, i) ==
    IF i > Len(installs) THEN st
    ELSE AddRtpPaths(add_rtp_path(st, installs[i]), installs, i + 1)

\* FileFinder::InitRtpPaths(no_rtp, no_rtp_warnings); installs are the paths
\* the platform and the environment name, in order
InitRtpPathsState(no_rtp, no_rtp_warnings, installs) ==
    LET st == [RtpStateDefault EXCEPT !.disable_rtp = no_rtp,
                                      !.game_has_full_package_flag = no_rtp_warnings]
    IN  IF st.disable_rtp THEN st ELSE AddRtpPaths(st, installs, 1)

(***************************************************************************)
(* Inputs of the canonicalization specification                            *)
(***************************************************************************)
PathSegments == {<< >>, <<".">>, <<".", ".">>, <<"a">>, <<"b">>}
PathSeparators == {SLASH, BACKSLASH, YEN}

RECURSIVE PathsUpTo(_)
PathsUpTo(n) ==
    IF n <= 1 THEN PathSegments
    ELSE LET shorter == PathsUpTo(n - 1) IN
         shorter \cup {p \o <<sep>> \o seg :
                           p \in shorter, sep \in PathSeparators, seg \in PathSegments}

\* "a/b/../c", "../x", "../../x"
ExamplePaths ==
    { <<"a", "/", "b", "/", ".", ".", "/", "c">>,
      <<".", ".", "/", "x">>,
      <<".", ".", "/", ".", ".", "/", "x">> }

CanonPaths == PathsUpTo(MaxSegs) \cup ExamplePaths

(***************************************************************************)
(* The variables a specification does not use                              *)
(***************************************************************************)
NoResolve == [dir |-> << >>, name |-> << >>, exts |-> << >>, tryTranslate |-> FALSE]

CanonIdle == c_path = << >> /\ c_depth = 0 /\ c_canon = << >> /\ c_again = << >>
LookupIdle == l_disk = NoDisk /\ l_tree = NoTree /\ l_req = NoRequest /\ l_ret = << >>
NarrowIdle == n_a = << >> /\ n_b = << >> /\ n_ab = << >> /\ n_ba = << >>
SeqIdle == q_reqs = << >> /\ q_trace = << >>
ScoreIdle == h_info = << >>
ScanIdle == s_entries = << >> /\ s_mode = "none" /\ s_dir = EmptyDirectory
NoInitRtpPaths == [no_rtp |-> TRUE, no_rtp_warnings |-> FALSE, installs |-> << >>]

ObservedNothing ==
    /\ last_req = NoResolve /\ last_ret = << >> /\ warned = "none" /\ oracle_calls = 0
    /\ rtp_before = RtpStateDefault
    /\ last_is_rtp_asset = "unset" /\ last_op = "none" /\ init_args = NoInitRtpPaths
    /\ lookups = 0 /\ log_missing = 0 /\ log_broken = 0 /\ missing_cond = 0
    /\ was_narrowed = FALSE
SessionIdle ==
    rtp_state = RtpStateDefault /\ game_directory_tree = NoTree /\ ObservedNothing

(***************************************************************************)
(* Specification of MakeCanonical as a pure function                       *)
(***************************************************************************)
CanonInit ==
    /\ escape_symbol \in EscapeSymbols
    /\ pc = "path"
    /\ c_path \in CanonPaths
    /\ c_depth \in 0..MaxDepth
    /\ c_canon = << >>
    /\ c_again = << >>
    /\ translation_id = << >>
    /\ LookupIdle /\ NarrowIdle /\ SeqIdle /\ ScoreIdle /\ ScanIdle /\ SessionIdle

Canonicalize ==
    /\ pc = "path"
    /\ c_canon' = MakeCanonical(c_path, c_depth)
    /\ pc' = "canon"
    /\ UNCHANGED <<escape_symbol, translation_id, c_path, c_depth, c_again>>
    /\ UNCHANGED <<lookupVars, narrowVars, seqVars, scoreVars, scanVars, sessionVars>>

Recanonicalize ==
    /\ pc = "canon"
    /\ \E d \in 0..MaxDepth : c_again' = MakeCanonical(c_canon, d)
    /\ pc' = "again"
    /\ UNCHANGED <<escape_symbol, translation_id, c_path, c_depth, c_canon>>
    /\ UNCHANGED <<lookupVars, narrowVars, seqVars, scoreVars, scanVars, sessionVars>>

CanonNext == Canonicalize \/ Recanonicalize

CanonSpec == CanonInit /\ [][CanonNext]_vars

(***************************************************************************)
(* Inputs of the tree lookup specification                                 *)
(***************************************************************************)
\* extension lists (char const* exts[]): ".o" and ".g" stand for .opus and .ogg
MUSIC_TYPES == << <<".", "o">>, <<".", "g">> >>
\* ".o" and ".g" stand for .opus and .ogg here too
SOUND_TYPES == << <<".", "o">>, <<".", "g">> >>
no_exts == << << >> >>

GamePath == <<"G">>

\* a project with a translation, a nested directory, siblings and root files
TraversalDisks ==
    { Disk(GamePath,
           << Dir(<<"D">>, << File(<<"T", ".", "g">>), Dir(<<"E">>, << File(<<"x">>) >>) >>),
              File(<<"S">>),
              Dir(<<"E">>, << File(<<"x">>), File(<<"S", ".", "o">>) >>),
              File(<<"x", ".", "g">>),
              Dir(<<"L">>, << Dir(<<"e">>, << Dir(<<"D">>, << File(<<"x", ".", "g">>) >>) >>) >>) >>),
      Disk(GamePath,
           << File(<<"E">>), Dir(<<"D">>, << File(<<"S">>) >>) >>) }

NameSegments == {<<".", ".">>, <<"E">>, <<"x">>, <<"S">>}

RECURSIVE NamesUpTo(_)
NamesUpTo(n) ==
    IF n <= 1 THEN NameSegments
    ELSE LET shorter == NamesUpTo(n - 1) IN
         shorter \cup {p \o <<sep>> \o seg :
                           p \in shorter, sep \in PathSeparators, seg \in NameSegments}

TraversalRequests ==
    [dir : {<<"D">>, << >>}, name : NamesUpTo(MaxSegs) \cup {<<".", ".", "/", ".", ".", "/", "S">>},
     exts : {MUSIC_TYPES, no_exts}, translate : BOOLEAN]

\* directories whose entries differ in case only
CasedFileNames == {<<"T", ".", "g">>, <<"t", ".", "g">>, <<"T", ".", "o">>}

RECURSIVE ListingsUpTo(_)
ListingsUpTo(n) ==
    IF n = 0 THEN {<< >>}
    ELSE LET shorter == ListingsUpTo(n - 1) IN
         shorter \cup {Append(l, File(f)) :
                           l \in {x \in shorter : Len(x) = n - 1},
                           f \in CasedFileNames}

\* names within one directory are distinct on disk
DistinctNames(l) == \A i, j \in 1..Len(l) : l[i].name = l[j].name => i = j

CasedListings == {l \in ListingsUpTo(MaxEntries) : DistinctNames(l)}

CasedDisks ==
    { Disk(GamePath, << Dir(n[1], l1), Dir(n[2], l2) >>) :
          n \in { <<(<<"D">>), (<<"E">>)>>, <<(<<"D">>), (<<"d">>)>>, <<(<<"d">>), (<<"D">>)>> },
          l1 \in CasedListings, l2 \in CasedListings }

CasedRequests ==
    [dir : {<<"D">>, <<"d">>}, name : {<<"T">>, <<"t">>}, exts : {MUSIC_TYPES},
     translate : {FALSE}]
    \cup
    [dir : {<<"D">>, <<"d">>}, name : {<<"T", ".", "g">>, <<"t", ".", "G">>},
     exts : {no_exts}, translate : {FALSE}]

LookupDisks == TraversalDisks \cup CasedDisks
RequestsOn(disk) == IF disk \in TraversalDisks THEN TraversalRequests ELSE CasedRequests
TranslationIds == {<< >>, <<"e">>}

(***************************************************************************)
(* Specification of FindFile(tree, dir, name, exts, translate)             *)
(***************************************************************************)
LookupInit ==
    /\ escape_symbol \in EscapeSymbols
    /\ translation_id \in TranslationIds
    /\ pc = "disk"
    /\ l_disk \in LookupDisks
    /\ l_tree = NoTree /\ l_req = NoRequest /\ l_ret = << >>
    /\ CanonIdle /\ NarrowIdle /\ SeqIdle /\ ScoreIdle /\ ScanIdle /\ SessionIdle

BuildTree ==
    /\ pc = "disk"
    /\ l_tree' = CreateDirectoryTree(l_disk, "RECURSIVE")
    /\ pc' = "tree"
    /\ UNCHANGED <<escape_symbol, translation_id, canonVars, l_disk, l_req, l_ret>>
    /\ UNCHANGED <<narrowVars, seqVars, scoreVars, scanVars, sessionVars>>

LookupFile ==
    /\ pc = "tree"
    /\ \E req \in RequestsOn(l_disk) :
          /\ l_req' = req
          /\ l_ret' = FindFileTree(l_tree, req.dir, req.name, req.exts, req.translate)
    /\ pc' = "found"
    /\ UNCHANGED <<escape_symbol, translation_id, canonVars, l_disk, l_tree>>
    /\ UNCHANGED <<narrowVars, seqVars, scoreVars, scanVars, sessionVars>>

LookupNext == BuildTree \/ LookupFile

LookupSpec == LookupInit /\ [][LookupNext]_vars

(***************************************************************************)
(* Specification of the narrowing of game_rtp by two requests, both orders *)
(***************************************************************************)
RECURSIVE ListsOver(_)
\* the duplicate-free lists over a set of RTP types
ListsOver(S) ==
    {<< >>} \cup UNION { {<<t>> \o l : l \in ListsOver(S \ {t})} : t \in S }

CandidateLists == ListsOver(Range(RtpTypes))

NarrowInit ==
    /\ escape_symbol = BACKSLASH
    /\ translation_id = << >>
    /\ pc = "unknown"
    /\ n_a \in CandidateLists
    /\ n_b \in CandidateLists
    /\ n_ab = << >>
    /\ n_ba = << >>
    /\ CanonIdle /\ LookupIdle /\ SeqIdle /\ ScoreIdle /\ ScanIdle /\ SessionIdle

\* the first rtp_lookup of each session: A in one, B in the other
LookupFirst ==
    /\ pc = "unknown"
    /\ n_ab' = NarrowGameRtp(n_ab, n_a)
    /\ n_ba' = NarrowGameRtp(n_ba, n_b)
    /\ pc' = "first"
    /\ UNCHANGED <<escape_symbol, translation_id, n_a, n_b, canonVars, lookupVars, seqVars,
                   scoreVars, scanVars, sessionVars>>

\* the second rtp_lookup of each session: B in one, A in the other
LookupSecond ==
    /\ pc = "first"
    /\ n_ab' = NarrowGameRtp(n_ab, n_b)
    /\ n_ba' = NarrowGameRtp(n_ba, n_a)
    /\ pc' = "second"
    /\ UNCHANGED <<escape_symbol, translation_id, n_a, n_b, canonVars, lookupVars, seqVars,
                   scoreVars, scanVars, sessionVars>>

NarrowNext == LookupFirst \/ LookupSecond

NarrowSpec == NarrowInit /\ [][NarrowNext]_vars

(***************************************************************************)
(* Specification of the narrowing of game_rtp over a run of rtp_lookup     *)
(* calls                                                                   *)
(***************************************************************************)
\* what LookupAnyToRtp can answer: the variants in the order of the table
SeqCandidates ==
    {SelectSeq(RtpTypes, LAMBDA t : t \in S) : S \in SUBSET Range(RtpTypes)}

SeqInit ==
    /\ escape_symbol = BACKSLASH
    /\ translation_id = << >>
    /\ pc = "lookups"
    /\ q_reqs = << >>
    /\ q_trace = << >>
    /\ CanonIdle /\ LookupIdle /\ NarrowIdle /\ ScoreIdle /\ ScanIdle /\ SessionIdle

\* one rtp_lookup of the session, lines 177-209; game_rtp starts empty
SeqLookup ==
    /\ Len(q_reqs) < MaxRequests
    /\ \E candidates \in SeqCandidates :
           /\ q_reqs' = Append(q_reqs, candidates)
           /\ q_trace' = Append(q_trace,
                   NarrowGameRtp(IF q_trace = << >> THEN RtpStateDefault.game_rtp
                                 ELSE q_trace[Len(q_trace)], candidates))
    /\ UNCHANGED <<escape_symbol, pc, translation_id, canonVars, lookupVars, narrowVars,
                   scoreVars, scanVars, sessionVars>>

SeqNext == SeqLookup

SeqSpec == SeqInit /\ [][SeqNext]_vars

(***************************************************************************)
(* Specification of GetDirectoryMembers over listings whose names differ  *)
(* in case only                                                            *)
(***************************************************************************)
Modes == {"FILES", "DIRECTORIES", "ALL", "RECURSIVE"}

\* what a subdirectory of the scanned directory holds
SubListings ==
    { << >>, << File(<<"x">>) >>, << File(<<"X">>) >>,
      << File(<<"x">>), File(<<"X">>) >>, << File(<<"X">>), File(<<"x">>) >> }

ScanPool ==
    {File(<<"x">>), File(<<"X">>)}
    \cup {Dir(n, l) : n \in {<<"D">>, <<"d">>}, l \in SubListings}

RECURSIVE ScanListingsUpTo(_)
ScanListingsUpTo(n) ==
    IF n = 0 THEN {<< >>}
    ELSE LET shorter == ScanListingsUpTo(n - 1) IN
         shorter \cup {Append(l, e) : l \in {x \in shorter : Len(x) = n - 1},
                                      e \in ScanPool}

ScanListings == {l \in ScanListingsUpTo(MaxScan) : DistinctNames(l)}

ScanInit ==
    /\ escape_symbol = BACKSLASH
    /\ translation_id = << >>
    /\ pc = "listing"
    /\ s_entries \in ScanListings
    /\ s_mode \in Modes
    /\ s_dir = EmptyDirectory
    /\ CanonIdle /\ LookupIdle /\ NarrowIdle /\ SeqIdle /\ ScoreIdle /\ SessionIdle

\* GetDirectoryMembers(path, m) of the directory that lists s_entries
ScanDirectory ==
    /\ pc = "listing"
    /\ s_dir' = GetDirectoryMembers(s_entries, s_mode, << >>)
    /\ pc' = "scanned"
    /\ UNCHANGED <<escape_symbol, translation_id, canonVars, lookupVars, narrowVars,
                   seqVars, scoreVars, s_entries, s_mode, sessionVars>>

ScanNext == ScanDirectory

ScanSpec == ScanInit /\ [][ScanNext]_vars

(***************************************************************************)
(* Specification of FindFile(tree, ...) on the trees of every constructor  *)
(***************************************************************************)
TreeRequests ==
    [dir : {<<"D">>, <<"E">>}, name : {<<"x">>, <<"S">>, <<"T">>},
     exts : {MUSIC_TYPES, no_exts}, translate : BOOLEAN]

\* what a build can do where the code reads through sub_members.end():
\* stop, find nothing in what it reads, or return a name it reads there
ReadThroughEnd(tree) ==
    { <<"<", "stopped", ">">>, << >>,
      MakePath(tree.directory_path, <<"<", "unrelated", ">">>) }

\* the outcomes of a lookup the model computes as ret
OutcomesOf(ret, tree) == IF ret = Dangling THEN ReadThroughEnd(tree) ELSE {ret}

TreeInit ==
    /\ escape_symbol \in EscapeSymbols
    /\ translation_id \in TranslationIds
    /\ pc = "disk"
    /\ l_disk \in TraversalDisks
    /\ l_tree = NoTree /\ l_req = NoRequest /\ l_ret = << >>
    /\ s_mode \in Modes
    /\ s_entries = << >> /\ s_dir = EmptyDirectory
    /\ CanonIdle /\ NarrowIdle /\ SeqIdle /\ ScoreIdle /\ SessionIdle

\* CreateDirectoryTree(p, mode)
BuildTreeInMode ==
    /\ pc = "disk"
    /\ l_tree' = CreateDirectoryTree(l_disk, s_mode)
    /\ pc' = "tree"
    /\ UNCHANGED <<escape_symbol, translation_id, canonVars, l_disk, l_req, l_ret>>
    /\ UNCHANGED <<narrowVars, seqVars, scoreVars, scanVars, sessionVars>>

\* CreateSaveDirectoryTree()
BuildSaveTree ==
    /\ pc = "disk"
    /\ l_tree' = CreateSaveDirectoryTree(l_disk)
    /\ pc' = "save_tree"
    /\ UNCHANGED <<escape_symbol, translation_id, canonVars, l_disk, l_req, l_ret>>
    /\ UNCHANGED <<narrowVars, seqVars, scoreVars, scanVars, sessionVars>>

\* FindFile(tree, dir, name, exts, translate) on the tree that was built
LookupInTree ==
    /\ pc \in {"tree", "save_tree"}
    /\ \E req \in TreeRequests :
          /\ l_req' = req
          /\ l_ret' \in OutcomesOf(FindFileTree(l_tree, req.dir, req.name, req.exts,
                                                req.translate), l_tree)
    /\ pc' = "looked_up"
    /\ UNCHANGED <<escape_symbol, translation_id, canonVars, l_disk, l_tree>>
    /\ UNCHANGED <<narrowVars, seqVars, scoreVars, scanVars, sessionVars>>

TreeNext == BuildTreeInMode \/ BuildSaveTree \/ LookupInTree

TreeSpec == TreeInit /\ [][TreeNext]_vars

(***************************************************************************)
(* Specification of add_rtp_path over what RTP::Detect reports             *)
(***************************************************************************)
\* the scores a hit can have: hits of max files found, max at least 1
Scores == {sc \in (0..MaxScore) \X (1..MaxScore) : sc[1] <= sc[2]}

\* the hit lists of n hits, one hit per variant in the order of the table
HitLists(n) ==
    {[i \in 1..n |-> [type |-> RtpTypes[i], hits |-> f[i][1], max |-> f[i][2]]] :
        f \in [1..n -> Scores]}

\* a directory that holds an RTP
RtpDisk == Disk(<<"R">>, << Dir(<<"P">>, << File(<<"a", ".", "p">>) >>) >>)

ScoreInit ==
    /\ escape_symbol = BACKSLASH
    /\ translation_id = << >>
    /\ pc = "detect"
    /\ \E n \in 0..MaxHits : h_info \in HitLists(n)
    /\ rtp_state = RtpStateDefault
    /\ game_directory_tree = NoTree
    /\ ObservedNothing
    /\ CanonIdle /\ LookupIdle /\ NarrowIdle /\ SeqIdle /\ ScanIdle

\* add_rtp_path(p) where RTP::Detect reports h_info
AddRtpPath ==
    /\ pc = "detect"
    /\ rtp_state' = add_rtp_path(rtp_state, [disk |-> RtpDisk, detect |-> h_info])
    /\ pc' = "added"
    /\ UNCHANGED <<escape_symbol, translation_id, canonVars, lookupVars, narrowVars,
                   seqVars, scoreVars, scanVars, game_directory_tree, observed>>

ScoreNext == AddRtpPath

ScoreSpec == ScoreInit /\ [][ScoreNext]_vars

(***************************************************************************)
(* Specification of a run of the player: the project, the installed RTPs,  *)
(* InitRtpPaths, FindFile requests and Quit                                *)
(***************************************************************************)
\* ".b" and ".p" stand for .bmp and .png
IMG_TYPES == << <<".", "b">>, <<".", "p">> >>

\* the project: a picture, and a translation "e" that replaces it
GameDisk ==
    Disk(GamePath,
         << Dir(Picture, << File(<<"A", ".", "p">>) >>),
            Dir(<<"L">>, << Dir(<<"e">>, << Dir(Picture, << File(<<"a", ".", "p">>) >>) >>) >>) >>)

Install(disk, detect) == [disk |-> disk, detect |-> detect]
Hit(type, hits, max) == [type |-> type, hits |-> hits, max |-> max]

\* an installed RTP V1: "c" of V3 is "k" here, "n" is an extra file of no RTP
InstalledV1 ==
    Install(Disk(<<"R", "1">>,
                 << Dir(Picture, << File(<<"a", ".", "p">>), File(<<"k", ".", "p">>),
                                    File(<<"n", ".", "p">>) >>),
                    Dir(Music, << File(<<"a", ".", "g">>) >>),
                    Dir(Sound, << File(<<"a", ".", "o">>), File(<<"k", ".", "o">>),
                                  File(<<"c", ".", "o">>) >>) >>),
            << Hit(V1, 3, 3) >>)

\* an installed RTP V2 that also matches the add-on; it holds "n" and the
\* music "a" as the first does
InstalledV2 ==
    Install(Disk(<<"R", "2">>, << Dir(Picture, << File(<<"b", ".", "p">>),
                                                  File(<<"d", ".", "p">>),
                                                  File(<<"n", ".", "p">>) >>),
                                  Dir(Music, << File(<<"a", ".", "g">>) >>) >>),
            << Hit(V2, 1, 2), Hit(RPG2000_DonMiguelAddon, 1, 1) >>)

\* a path that is no directory
NotInstalled == Install([NoDisk EXCEPT !.path = <<"R", "0">>], << >>)

DiscoveredPaths ==
    { << >>, <<InstalledV1>>, <<NotInstalled, InstalledV1>>, <<InstalledV1, InstalledV2>>,
      <<InstalledV2>>, <<InstalledV1, NotInstalled, InstalledV2>> }

AssetNames == {<<"a">>, <<"b">>, <<"c">>, <<"n">>}

ResolveRequests ==
    [dir : {Picture}, name : AssetNames, exts : {IMG_TYPES}, tryTranslate : BOOLEAN]
    \cup
    [dir : {Music}, name : {<<"a">>, <<"c">>}, exts : {MUSIC_TYPES}, tryTranslate : {FALSE}]
    \cup
    [dir : {Sound}, name : {<<"a">>, <<"c">>}, exts : {SOUND_TYPES}, tryTranslate : {FALSE}]
    \cup
    [dir : {Picture}, name : {<<"d">>}, exts : {IMG_TYPES}, tryTranslate : {FALSE}]

Init ==
    /\ escape_symbol \in EscapeSymbols
    /\ translation_id \in TranslationIds
    /\ pc = "run"
    /\ rtp_state = RtpStateDefault
    /\ game_directory_tree = NoTree
    /\ ObservedNothing
    /\ CanonIdle /\ LookupIdle /\ NarrowIdle /\ SeqIdle /\ ScoreIdle /\ ScanIdle

\* FileFinder::SetDirectoryTree(CreateDirectoryTree(project path))
SetDirectoryTree ==
    /\ ~game_directory_tree.valid
    /\ game_directory_tree' = CreateDirectoryTree(GameDisk, "RECURSIVE")
    /\ last_op' = "SetDirectoryTree"
    /\ UNCHANGED <<escape_symbol, pc, translation_id, canonVars, lookupVars, narrowVars, seqVars, scoreVars, scanVars,
                   rtp_state, last_req, last_ret, last_is_rtp_asset, rtp_before, init_args,
                   warned, oracle_calls, lookups, log_missing, log_broken, missing_cond,
                   was_narrowed>>

InitRtpPaths_NoReset ==
    /\ \E no_rtp \in BOOLEAN, no_rtp_warnings \in BOOLEAN, installs \in DiscoveredPaths :
          /\ rtp_state' =
                 IF no_rtp
                 THEN [rtp_state EXCEPT !.disable_rtp = no_rtp,
                                        !.game_has_full_package_flag = no_rtp_warnings]
                 ELSE AddRtpPaths([rtp_state EXCEPT !.disable_rtp = no_rtp,
                                                    !.game_has_full_package_flag = no_rtp_warnings],
                                  installs, 1)
          /\ init_args' = [no_rtp |-> no_rtp, no_rtp_warnings |-> no_rtp_warnings,
                           installs |-> installs]
    /\ last_req' = NoResolve /\ last_ret' = << >> /\ warned' = "none" /\ oracle_calls' = 0
    /\ last_is_rtp_asset' = "unset" /\ last_op' = "InitRtpPaths"
    /\ rtp_before' = rtp_state
    /\ lookups' = 0 /\ log_missing' = 0 /\ log_broken' = 0 /\ missing_cond' = 0
    /\ was_narrowed' = FALSE
    /\ UNCHANGED <<escape_symbol, pc, translation_id, canonVars, lookupVars, narrowVars, seqVars, scoreVars, scanVars,
                   game_directory_tree>>

\* FileFinder::InitRtpPaths(no_rtp, no_rtp_warnings)
InitRtpPaths ==
    /\ \E no_rtp \in BOOLEAN, no_rtp_warnings \in BOOLEAN, installs \in DiscoveredPaths :
          /\ rtp_state' = InitRtpPathsState(no_rtp, no_rtp_warnings, installs)
          /\ init_args' = [no_rtp |-> no_rtp, no_rtp_warnings |-> no_rtp_warnings,
                           installs |-> installs]
    /\ last_req' = NoResolve /\ last_ret' = << >> /\ warned' = "none" /\ oracle_calls' = 0
    /\ last_is_rtp_asset' = "unset" /\ last_op' = "InitRtpPaths"
    /\ rtp_before' = rtp_state
    /\ lookups' = 0 /\ log_missing' = 0 /\ log_broken' = 0 /\ missing_cond' = 0
    /\ was_narrowed' = FALSE
    /\ UNCHANGED <<escape_symbol, pc, translation_id, canonVars, lookupVars, narrowVars, seqVars, scoreVars, scanVars,
                   game_directory_tree>>

\* the request misses an asset of the RTP: RTP enabled, the game not flagged
\* self-sufficient, no audio, the RTP table knows the asset, nothing was found
MissesRtpAsset(st, r, result) ==
    /\ ~st.disable_rtp
    /\ ~st.game_has_full_package_flag
    /\ Normalize(r.dir) \notin {<<"m", "u", "s", "i", "c">>, <<"s", "o", "u", "n", "d">>}
    /\ LookupAnyToRtp(Normalize(r.dir), Normalize(r.name)) # << >>
    /\ result = << >>

\* FindFile(dir, name, exts, tryTranslate), as FindImage, FindMusic, ... call it
Resolve ==
    /\ game_directory_tree.valid
    /\ lookups < MaxLookups
    /\ \E r \in ResolveRequests :
          \E f \in {FindFile(rtp_state, game_directory_tree, r.dir, r.name, r.exts,
                             r.tryTranslate)} :
              /\ rtp_state' = f.state
              /\ last_req' = r
              /\ last_ret' = f.ret
              /\ last_is_rtp_asset' = f.is_rtp_asset
              /\ rtp_before' = rtp_state
              /\ warned' = f.warning
              /\ oracle_calls' = f.oracle_calls
              /\ log_missing' = log_missing + (IF f.warning = "missing" THEN 1 ELSE 0)
              /\ log_broken' = log_broken + (IF f.warning = "broken" THEN 1 ELSE 0)
              /\ missing_cond' = missing_cond
                                   + (IF MissesRtpAsset(rtp_state, r, f.ret) THEN 1 ELSE 0)
              /\ was_narrowed' = (was_narrowed \/ f.state.game_rtp # << >>)
    /\ lookups' = lookups + 1
    /\ last_op' = "FindFile"
    /\ UNCHANGED <<escape_symbol, pc, translation_id, canonVars, lookupVars, narrowVars, seqVars, scoreVars, scanVars,
                   game_directory_tree, init_args>>

\* FileFinder::Quit
Quit ==
    /\ rtp_state' = RtpStateDefault
    /\ game_directory_tree' = NoTree
    /\ last_req' = NoResolve /\ last_ret' = << >> /\ warned' = "none" /\ oracle_calls' = 0
    /\ last_is_rtp_asset' = "unset" /\ last_op' = "Quit" /\ init_args' = NoInitRtpPaths
    /\ rtp_before' = rtp_state
    /\ lookups' = 0 /\ log_missing' = 0 /\ log_broken' = 0 /\ missing_cond' = 0
    /\ was_narrowed' = FALSE
    /\ UNCHANGED <<escape_symbol, pc, translation_id, canonVars, lookupVars, narrowVars, seqVars,
                   scoreVars, scanVars>>

Next == SetDirectoryTree \/ InitRtpPaths \/ Resolve \/ Quit

Spec == Init /\ [][Next]_vars

(***************************************************************************)
(* Claims about the lookup in one tree (specification LookupSpec)          *)
(***************************************************************************)
\* every path the index of a tree can name
IndexPaths(tree) ==
    {MakePath(tree.directory_path, tree.files[k]) : k \in DOMAIN tree.files}
    \cup UNION { {MakePath(tree.directory_path \o <<SLASH>> \o tree.directories[d],
                           tree.sub_members[d][k]) : k \in DOMAIN tree.sub_members[d]} :
                 d \in DOMAIN tree.directories \cap DOMAIN tree.sub_members }

\* p names a location below base: base, a separator, and no ascent after it
IsBelow(p, base) ==
    /\ Len(p) > Len(base) + 1
    /\ SubSeq(p, 1, Len(base) + 1) = base \o <<SLASH>>
    /\ LET rest == Tokenize(SubSeq(p, Len(base) + 2, Len(p)), {SLASH, BACKSLASH})
       IN  \A i \in 1..Len(rest) : rest[i] # <<".", ".">>

HasAscent(name) ==
    \E i \in 1..Len(SplitPath(name)) : SplitPath(name)[i] = <<".", ".">>

\* C5: every non-empty path FindFile(tree, dir, name, exts) returns is
\* directory_path joined with original names of the tree's index, and names no
\* location above directory_path, whatever '..' segments the name holds.
C5_LookupStaysInTree ==
    (pc = "found" /\ l_ret # << >>) =>
        /\ l_ret \in IndexPaths(l_tree)
        /\ IsBelow(l_ret, l_tree.directory_path)

\* a name with two ascents ("../../S") was resolved, to a file of the tree
C5_Witness ==
    /\ pc = "found"
    /\ l_req.dir = <<"D">>
    /\ l_req.name = <<".", ".", "/", ".", ".", "/", "S">>
    /\ l_ret = <<"G", "/", "S">>

\* the directories of the disk whose normalized name is that of the request
MatchingDirs == {i \in 1..Len(l_disk.entries) :
                    /\ l_disk.entries[i].is_directory
                    /\ Normalize(l_disk.entries[i].name) = Normalize(l_req.dir)}

\* the files of directory i whose normalized name is that of the request
MatchingFiles(i) ==
    {j \in 1..Len(l_disk.entries[i].entries) :
        /\ ~l_disk.entries[i].entries[j].is_directory
        /\ Normalize(l_disk.entries[i].entries[j].name) = Normalize(l_req.name)}

Last(S) == CHOOSE i \in S : \A j \in S : j <= i

OnDiskPath(i, j) ==
    l_disk.path \o <<SLASH>> \o l_disk.entries[i].name
                \o <<SLASH>> \o l_disk.entries[i].entries[j].name

PlainLookupDone == pc = "found" /\ l_disk \in CasedDisks /\ l_req.exts = no_exts

Reduced(raw) == Range(raw) \ {RPG2000_DonMiguelAddon}

BothOrdersDone == pc = "second" /\ n_a # << >> /\ n_b # << >>

ExampleRequests == n_a = <<V1, V2>> /\ n_b = <<V2, V3>>

\* the two requests have no variant in common and one of them names one variant
ResolvedApart ==
    /\ Reduced(n_a) # {} /\ Reduced(n_b) # {}
    /\ Reduced(n_a) \cap Reduced(n_b) = {}
    /\ (Cardinality(Reduced(n_a)) = 1 \/ Cardinality(Reduced(n_b)) = 1)

\* C1 as stated: from Unknown, for any two requests with non-empty candidate
\* sets game_rtp ends as the same set whichever is requested first, and as
\* {V2} for A -> {V1,V2}, B -> {V2,V3}.
C1_OrderIndependent ==
    BothOrdersDone =>
        /\ Range(n_ab) = Range(n_ba)
        /\ ExampleRequests => (n_ab = <<V2>> /\ n_ba = <<V2>>)

\* C1 amended: the two orders end in the same set exactly when the candidate
\* sets (add-on removed) are not disjoint with one of them a single variant;
\* then the variant requested first is kept by one order and lost by the other.
C1_OrderIndependentUnlessResolvedApart ==
    BothOrdersDone =>
        /\ (Range(n_ab) = Range(n_ba)) <=> ~ResolvedApart
        /\ ExampleRequests => (n_ab = <<V2>> /\ n_ba = <<V2>>)

C1_Witness ==
    BothOrdersDone /\ ExampleRequests /\ n_ab = <<V2>> /\ n_ba = <<V2>>

(***************************************************************************)
(* Claims about a run of the player (specification Spec)                   *)
(***************************************************************************)
\* C2: once game_rtp has been non-empty in a session, no later step leaves it
\* with a variant it did not hold before the step.
C2_CandidatesNeverGrow ==
    [][was_narrowed => Range(rtp_state'.game_rtp) \subseteq Range(rtp_state.game_rtp)]_vars

\* C3: when two or more requests of a session each miss an asset the RTP owns
\* (RTP enabled, game not self-sufficient, no audio), the "Cannot find" warning
\* has been emitted exactly once.
C3_MissingWarnedOnce == missing_cond >= 2 => log_missing = 1

\* what LookupAnyToRtp answered for the last request
LastCandidates == LookupAnyToRtp(Normalize(last_req.dir), Normalize(last_req.name))

\* C4: game_rtp never contains RPG2000_DonMiguelAddon, although the RTP table
\* names it for every asset.
C4_AddonNeverGameRtp == RPG2000_DonMiguelAddon \notin Range(rtp_state.game_rtp)

\* a lookup whose candidates held the add-on has set game_rtp
C4_Witness ==
    /\ oracle_calls = 1
    /\ RPG2000_DonMiguelAddon \in Range(LastCandidates)
    /\ rtp_state.game_rtp # << >>

Overlay ==
    FindFileTree(game_directory_tree, last_req.dir, last_req.name, last_req.exts, TRUE)
Project ==
    FindFileTree(game_directory_tree, last_req.dir, last_req.name, last_req.exts, FALSE)
OverlayHit == last_req.tryTranslate /\ translation_id # << >> /\ Overlay # << >>

RtpTreePaths ==
    UNION {IndexPaths(rtp_state.search_paths[i]) : i \in DOMAIN rtp_state.search_paths}

\* an installed RTP holds the asset under the name the RTP table gives it for
\* the one variant game_rtp is narrowed to
NarrowedVariantInstalled ==
    /\ Len(rtp_state.game_rtp) = 1
    /\ \E i \in DOMAIN rtp_state.detected_rtp :
          LET entry == LookupRtpToRtp(Normalize(last_req.dir), Normalize(last_req.name),
                                      rtp_state.game_rtp[1],
                                      rtp_state.detected_rtp[i].type).entry
          IN  /\ entry # << >>
              /\ FindFileTree(rtp_state.detected_rtp[i].tree, Normalize(last_req.dir),
                              entry, last_req.exts, FALSE) # << >>

\* the state after a FindFile(dir, name, exts, tryTranslate): first match wins
LayeredResult ==
    IF OverlayHit THEN last_ret = Overlay
    ELSE IF Project # << >> THEN last_ret = Project
    ELSE IF rtp_state.disable_rtp THEN last_ret = << >>
    ELSE /\ last_ret = RtpSearch(rtp_state, Normalize(last_req.dir),
                                 Normalize(last_req.name), last_req.exts).ret
         /\ last_ret # << >> => last_ret \in RtpTreePaths
         /\ NarrowedVariantInstalled => last_ret # << >>

\* C8: FindFile(dir, name, exts, tryTranslate) returns the hit of the
\* translation overlay if translation is allowed and active and the overlay has
\* the asset, otherwise the hit of the project tree, otherwise, only with RTP
\* enabled, the result of the RTP search; an asset only an installed RTP holds,
\* attributed to the narrowed variant, is returned from that RTP.
C8_LayeredFirstMatchWins == lookups > 0 => LayeredResult

\* "c" of variant V3 was found as k.p in the installed V1
C8_Witness ==
    /\ lookups > 0
    /\ last_req.name = <<"c">>
    /\ ~OverlayHit /\ Project = << >>
    /\ rtp_state.game_rtp = <<V3>>
    /\ last_ret = <<"R", "1", "/", "P", "/", "k", ".", "p">>

\* C10: with disable_rtp a FindFile that misses in the overlay and the project
\* returns nothing, asks no oracle, warns of nothing and leaves rtp_state as it
\* was; and a disabled rtp_state has no search path and no detected RTP.
C10_DisabledRtpBypassed ==
    /\ (lookups > 0 /\ rtp_before.disable_rtp) =>
          /\ rtp_state = rtp_before
          /\ oracle_calls = 0
          /\ warned = "none"
          /\ (~OverlayHit /\ Project = << >>) => last_ret = << >>
    /\ rtp_state.disable_rtp =>
          (rtp_state.search_paths = << >> /\ rtp_state.detected_rtp = << >>)

\* with RTP disabled, an asset of the RTP table that the project lacks was
\* requested and not found
C10_Witness ==
    /\ rtp_state.disable_rtp
    /\ lookups > 0
    /\ LastCandidates # << >>
    /\ last_ret = << >>

(***************************************************************************)
(* Claims about MakeCanonical (specification CanonSpec)                    *)
(***************************************************************************)
SegmentsOf(p) == IF p = << >> THEN << >> ELSE Tokenize(p, {SLASH})

DotOrEmpty == {<< >>, <<".">>, <<".", ".">>}

NoDotSegment(p) ==
    \A i \in 1..Len(SegmentsOf(p)) : SegmentsOf(p)[i] \notin DotOrEmpty

\* one step of the fold over the segments: the segments kept and the depth left
FoldStep(acc, seg) ==
    IF seg \in {<< >>, <<".">>} THEN acc
    ELSE IF seg = <<".", ".">>
         THEN IF acc.kept # << >>
              THEN [acc EXCEPT !.kept = SubSeq(@, 1, Len(@) - 1)]
              ELSE IF acc.depth > 0 THEN [acc EXCEPT !.depth = @ - 1] ELSE acc
         ELSE [acc EXCEPT !.kept = Append(@, seg)]

RECURSIVE FoldLeft(_, _, _)
FoldLeft(segs, n, depth) ==
    IF n = 0 THEN [kept |-> << >>, depth |-> depth]
    ELSE FoldStep(FoldLeft(segs, n - 1, depth), segs[n])

RECURSIVE JoinWithSlash(_, _)
JoinWithSlash(segs, n) ==
    IF n = 0 THEN << >>
    ELSE IF n = 1 THEN segs[1]
    ELSE JoinWithSlash(segs, n - 1) \o <<SLASH>> \o segs[n]

FoldOfSegments(path, depth) ==
    LET kept == FoldLeft(SplitPath(path), Len(SplitPath(path)), depth).kept
    IN  JoinWithSlash(kept, Len(kept))

CanonExamplesHold ==
    /\ (c_path = <<"a", "/", "b", "/", ".", ".", "/", "c">>) => c_canon = <<"a", "/", "c">>
    /\ (c_path = <<".", ".", "/", "x">> /\ c_depth = 1) => c_canon = <<"x">>
    /\ (c_path = <<".", ".", "/", ".", ".", "/", "x">> /\ c_depth = 1) => c_canon = <<"x">>

\* C6: MakeCanonical(path, depth) is the '/'-join of the segments a left fold
\* keeps (empty and '.' dropped, '..' pops a kept segment or else uses up
\* depth or else is dropped), its output has no '.', '..' or empty segment, and
\* 'a/b/../c' gives 'a/c', '../x' and '../../x' at depth 1 give 'x'.
C6_CanonicalIsFoldWithoutDots ==
    pc # "path" =>
        /\ c_canon = FoldOfSegments(c_path, c_depth)
        /\ NoDotSegment(c_canon)
        /\ CanonExamplesHold

\* C7: MakeCanonical(MakeCanonical(p, d), d2) = MakeCanonical(p, d) for every
\* path p and depths d, d2.
C7_CanonicalIdempotent == pc = "again" => c_again = c_canon

(***************************************************************************)
(* Claims about the life cycle of rtp_state (specification Spec)           *)
(***************************************************************************)
\* the trees and the hits one call of InitRtpPaths can add for the paths it found
TreesOf(installs) ==
    {CreateDirectoryTree(installs[i].disk, "RECURSIVE") : i \in DOMAIN installs}
HitsOf(installs) ==
    UNION { {[type |-> installs[i].detect[j].type,
              tree |-> CreateDirectoryTree(installs[i].disk, "RECURSIVE"),
              hits |-> installs[i].detect[j].hits,
              max |-> installs[i].detect[j].max] : j \in DOMAIN installs[i].detect} :
            i \in DOMAIN installs }

\* C11: right after InitRtpPaths(no_rtp, no_rtp_warnings) game_rtp is empty, the
\* warning latch is false, disable_rtp = no_rtp, the self-sufficiency flag is
\* no_rtp_warnings and search_paths and detected_rtp hold only what this call
\* added; right after Quit every field of rtp_state has its default value and
\* there is no project tree.
C11_LifecycleReset ==
    /\ last_op = "InitRtpPaths" =>
          /\ rtp_state.game_rtp = << >>
          /\ rtp_state.warning_broken_rtp_game_shown = FALSE
          /\ rtp_state.disable_rtp = init_args.no_rtp
          /\ rtp_state.game_has_full_package_flag = init_args.no_rtp_warnings
          /\ \A i \in DOMAIN rtp_state.search_paths :
                /\ rtp_state.search_paths[i].valid
                /\ rtp_state.search_paths[i] \in TreesOf(init_args.installs)
          /\ Len(rtp_state.search_paths) <= Len(init_args.installs)
          /\ Range(rtp_state.detected_rtp) \subseteq HitsOf(init_args.installs)
    /\ last_op = "Quit" =>
          /\ rtp_state.search_paths = << >>
          /\ rtp_state.disable_rtp = TRUE
          /\ rtp_state.game_has_full_package_flag = FALSE
          /\ rtp_state.warning_broken_rtp_game_shown = FALSE
          /\ rtp_state.detected_rtp = << >>
          /\ rtp_state.game_rtp = << >>
          /\ game_directory_tree = NoTree

\* InitRtpPaths was called in a session that had narrowed game_rtp, set the
\* latch and held other search paths
C11_Witness ==
    /\ last_op = "InitRtpPaths"
    /\ rtp_before.game_rtp # << >>
    /\ rtp_before.warning_broken_rtp_game_shown
    /\ Len(rtp_before.search_paths) = 2
    /\ Len(rtp_state.search_paths) = 1
    /\ ~rtp_state.disable_rtp

(***************************************************************************)
(* Claims about the warnings of FindFile (specification Spec)              *)
(***************************************************************************)
AudioDirs == {<<"m", "u", "s", "i", "c">>, <<"s", "o", "u", "n", "d">>}

\* the last FindFile found its result by the search across all RTP
FoundViaRtp ==
    /\ last_op = "FindFile"
    /\ ~OverlayHit /\ Project = << >>
    /\ last_is_rtp_asset = "true"
    /\ last_ret # << >> /\ last_ret \in RtpTreePaths

\* C12: the warning "This game claims it does not need the RTP, but actually
\* uses files from it!" is emitted at most once between an InitRtpPaths and the
\* next InitRtpPaths or Quit, and only by a FindFile of a game flagged
\* self-sufficient that found a non-audio asset by the RTP search.
C12_BrokenWarnedAtMostOnce ==
    /\ log_broken <= 1
    /\ warned = "broken" =>
          /\ rtp_state.game_has_full_package_flag
          /\ Normalize(last_req.dir) \notin AudioDirs
          /\ FoundViaRtp

\* after the warning a further FindFile met its conditions and stayed silent
C12_Witness ==
    /\ log_broken = 1
    /\ warned = "none"
    /\ rtp_state.game_has_full_package_flag
    /\ Normalize(last_req.dir) \notin AudioDirs
    /\ FoundViaRtp

\* C13: a FindFile whose directory normalizes to "music" or "sound" emits
\* neither RTP warning and leaves warning_broken_rtp_game_shown as it was.
C13_AudioExempt ==
    (last_op = "FindFile" /\ Normalize(last_req.dir) \in AudioDirs) =>
        /\ warned = "none"
        /\ rtp_state.warning_broken_rtp_game_shown = rtp_before.warning_broken_rtp_game_shown

\* a sound of the RTP was found for a game flagged self-sufficient, latch unset
C13_Witness ==
    /\ Normalize(last_req.dir) = <<"s", "o", "u", "n", "d">>
    /\ FoundViaRtp
    /\ rtp_state.game_has_full_package_flag
    /\ ~rtp_state.warning_broken_rtp_game_shown

(***************************************************************************)
(* The installed-RTP scoring of add_rtp_path                               *)
(***************************************************************************)
\* the ratio hits/max of a is at least that of b
RatioAtLeast(a, b) == a.hits * b.max >= b.hits * a.max

PathAdded == pc = "added" /\ Len(rtp_state.search_paths) = 1

\* the position in h_info of a retained hit; the variants of h_info differ
IndexOf(d) == CHOOSE i \in DOMAIN h_info : h_info[i].type = d.type

\* hit i has a ratio at least that of every hit reported before it
PrefixBest(i) == \A j \in 1..(i - 1) : RatioAtLeast(h_info[i], h_info[j])

\* the first hit whose ratio is the largest of all
FirstBest ==
    CHOOSE i \in DOMAIN h_info :
        /\ \A j \in DOMAIN h_info : RatioAtLeast(h_info[i], h_info[j])
        /\ \A j \in 1..(i - 1) : ~RatioAtLeast(h_info[j], h_info[i])

\* C14: after add_rtp_path(p) for a valid directory, every hit appended to
\* detected_rtp has a ratio hits/max equal to the largest ratio among all the
\* hits RTP::Detect returned for p, whatever the order of the hits
C14_OnlyBestRetained ==
    PathAdded =>
        \A d \in Range(rtp_state.detected_rtp) :
            \A i \in DOMAIN h_info : RatioAtLeast(d, h_info[i])

AllAttributable == \A i \in DOMAIN q_reqs : Reduced(q_reqs[i]) # {}

\* game_rtp had two variants or more after every request before the last
NeverResolvedNorEmptied == \A i \in 1..(Len(q_trace) - 1) : Len(q_trace[i]) >= 2

RECURSIVE IntersectionUpTo(_)
IntersectionUpTo(i) ==
    IF i = 1 THEN Reduced(q_reqs[1])
    ELSE IntersectionUpTo(i - 1) \cap Reduced(q_reqs[i])

\* C16: in a session that starts with game_rtp empty, after a sequence of
\* attributable requests during which game_rtp never had one variant and was
\* never emptied before the last request, game_rtp is the intersection of the
\* candidate sets of the requests; the first request sets it to its candidates
C16_NarrowingIsIntersection ==
    (q_reqs # << >> /\ AllAttributable) =>
        /\ q_trace[1] = RemoveAddon(q_reqs[1])
        /\ Range(q_trace[1]) = Reduced(q_reqs[1])
        /\ NeverResolvedNorEmptied =>
               Range(q_trace[Len(q_trace)]) = IntersectionUpTo(Len(q_reqs))

\* three requests narrow {V1,V2,V3} to {V1,V2} and then to {V2}
C16_Witness ==
    /\ q_reqs = << <<V1, V2, V3, RPG2000_DonMiguelAddon>>, <<V1, V2>>, <<V2, V4>> >>
    /\ q_trace = << <<V1, V2, V3>>, <<V1, V2>>, <<V2>> >>

(***************************************************************************)
(* rtp_lookup once game_rtp holds one variant, and the flag it reports     *)
(***************************************************************************)
\* the last FindFile came to rtp_lookup
RtpLookupDone == last_op = "FindFile" /\ last_is_rtp_asset # "unset"

\* C17: once game_rtp holds exactly one variant, a later rtp_lookup leaves
\* game_rtp as it is and does not call LookupAnyToRtp, also for a request
\* whose candidates do not contain the variant
C17_ResolvedIsAbsorbing ==
    (RtpLookupDone /\ Len(rtp_before.game_rtp) = 1) =>
        /\ rtp_state.game_rtp = rtp_before.game_rtp
        /\ oracle_calls = 0

\* game_rtp was V3 and the request was for Music "a", which V1 and V2 ship
C17_Witness ==
    /\ RtpLookupDone
    /\ rtp_before.game_rtp = <<V3>>
    /\ last_req.dir = Music /\ last_req.name = <<"a">>
    /\ V3 \notin Range(LookupAnyToRtp(Normalize(last_req.dir), Normalize(last_req.name)))
    /\ rtp_state.game_rtp = <<V3>>

\* the pairs of an installed RTP and a variant of game_rtp, as the search
\* across all RTP goes through them
CrossPairs == (DOMAIN rtp_state.detected_rtp) \X (DOMAIN rtp_state.game_rtp)

\* what LookupRtpToRtp answers for the last request and a pair
CrossLookup(pair) ==
    LookupRtpToRtp(Normalize(last_req.dir), Normalize(last_req.name),
                   rtp_state.game_rtp[pair[2]], rtp_state.detected_rtp[pair[1]].type)

\* the file the installed RTP of a pair holds under the name of an entry
CrossFile(pair, rtp_entry) ==
    FindFileTree(rtp_state.detected_rtp[pair[1]].tree, Normalize(last_req.dir),
                 rtp_entry, last_req.exts, FALSE)

\* the files the search across all RTP can find for the last request
CrossFound ==
    {CrossFile(pair, CrossLookup(pair).entry) :
        pair \in {q \in CrossPairs : CrossLookup(q).entry # << >>}} \ {<< >>}

\* C18: rtp_lookup reports is_rtp_asset = true exactly when it returns a
\* non-empty path found by the search across all RTP; when it ends in the
\* direct search, and so whenever it returns nothing, the flag is false,
\* whatever LookupRtpToRtp reported
C18_RtpAssetIffCrossFound ==
    RtpLookupDone =>
        /\ last_is_rtp_asset = "true" <=> CrossFound # {}
        /\ last_is_rtp_asset = "true" => last_ret \in CrossFound
        /\ last_ret = << >> => last_is_rtp_asset = "false"

\* LookupRtpToRtp reported an RTP asset, no installed RTP holds it, the direct
\* search found nothing and the flag is false
C18_Witness ==
    /\ RtpLookupDone
    /\ \E pair \in CrossPairs :
           CrossLookup(pair).is_rtp_asset /\ CrossLookup(pair).entry # << >>
    /\ last_ret = << >>
    /\ last_is_rtp_asset = "false"

(***************************************************************************)
(* Entries of one scan whose normalized names are equal                    *)
(***************************************************************************)
Scanned == pc = "scanned"

Produce(key_of, is_directory) ==
    [key |-> Normalize(key_of), value |-> key_of, is_directory |-> is_directory]

\* what the scan of one entry of the listing puts into the maps, in order:
\* the entry itself in a flat mode unless the mode skips it, and in RECURSIVE
\* mode the file itself or the files of the subdirectory under their paths
ProducedBy(e) ==
    IF s_mode = "RECURSIVE"
    THEN IF e.is_directory
         THEN [j \in 1..Len(e.entries) |->
                  Produce(e.name \o <<SLASH>> \o e.entries[j].name, FALSE)]
         ELSE << Produce(e.name, FALSE) >>
    ELSE IF (s_mode = "FILES" /\ e.is_directory) \/ (s_mode = "DIRECTORIES" /\ ~e.is_directory)
         THEN << >>
         ELSE << Produce(e.name, e.is_directory) >>

RECURSIVE ProducedUpTo(_)
ProducedUpTo(i) ==
    IF i = 0 THEN << >> ELSE ProducedUpTo(i - 1) \o ProducedBy(s_entries[i])

Produced == ProducedUpTo(Len(s_entries))

\* two entries of the same kind were scanned under one key
Collisions ==
    {pair \in (DOMAIN Produced) \X (DOMAIN Produced) :
        /\ pair[1] < pair[2]
        /\ Produced[pair[1]].key = Produced[pair[2]].key
        /\ Produced[pair[1]].is_directory = Produced[pair[2]].is_directory}

\* the value of the last entry scanned under a key
LastProduced(key, is_directory) ==
    Produced[Last({i \in DOMAIN Produced :
                      /\ Produced[i].key = key
                      /\ Produced[i].is_directory = is_directory})].value

\* C15: whenever a scan, in any mode, meets two distinct entries, files or
\* directories, whose normalized names are equal, a diagnostic is reported
C15_NoSilentCollision ==
    (Scanned /\ Collisions # {}) => s_dir.warnings > 0

\* C20: when a scan produces the same normalized key twice, the value kept is
\* the original name of the entry scanned later, in flat scans and in the
\* merge of the file maps of subdirectories in RECURSIVE mode
C20_LastScannedWins ==
    Scanned =>
        /\ \A k \in DOMAIN s_dir.files : s_dir.files[k] = LastProduced(k, FALSE)
        /\ \A k \in DOMAIN s_dir.directories :
               s_dir.directories[k] = LastProduced(k, TRUE)

(***************************************************************************)
(* Requests that no RTP but the add-on ships                               *)
(***************************************************************************)
\* the candidates of the last request, the add-on removed
LastReduced ==
    Reduced(LookupAnyToRtp(Normalize(last_req.dir), Normalize(last_req.name)))

\* the search paths that hold the last request, in discovery order
DirectHits ==
    {i \in DOMAIN rtp_state.search_paths :
        FindFileTree(rtp_state.search_paths[i], Normalize(last_req.dir),
                     Normalize(last_req.name), last_req.exts, FALSE) # << >>}

First(S) == CHOOSE i \in S : \A j \in S : i <= j

\* what the first search path that holds the last request gives
FirstDirectHit(hits) ==
    FindFileTree(rtp_state.search_paths[First(hits)], Normalize(last_req.dir),
                 Normalize(last_req.name), last_req.exts, FALSE)

\* the result of the direct search over the installed RTP directories
DirectSearchResult == IF DirectHits = {} THEN << >> ELSE FirstDirectHit(DirectHits)

\* C21: a request whose candidates are empty once the add-on is removed has
\* no narrowing effect, game_rtp is the same before and after the lookup, and
\* if game_rtp is empty the result is that of the direct search over the
\* installed RTP directories
C21_UnattributableNoNarrowing ==
    (RtpLookupDone /\ LastReduced = {}) =>
        /\ rtp_state.game_rtp = rtp_before.game_rtp
        /\ rtp_state.game_rtp = << >> =>
               (last_ret = DirectSearchResult /\ last_is_rtp_asset = "false")

\* "d" is of the add-on only; game_rtp stays unknown and the direct search
\* finds the file in the second installed directory
C21_Witness ==
    /\ RtpLookupDone
    /\ LookupAnyToRtp(Normalize(last_req.dir), Normalize(last_req.name))
           = <<RPG2000_DonMiguelAddon>>
    /\ rtp_before.game_rtp = << >>
    /\ rtp_state.game_rtp = << >>
    /\ Len(rtp_state.search_paths) = 2
    /\ DirectHits = {2}
    /\ last_ret = <<"R", "2", "/", "P", "/", "d", ".", "p">>

(***************************************************************************)
(* Requests the project satisfies                                          *)
(***************************************************************************)
FoundInProject == last_op = "FindFile" /\ (OverlayHit \/ Project # << >>)

\* C22: a request that the translation overlay or the project tree satisfies
\* leaves the whole rtp_state as it was and does not call LookupAnyToRtp
C22_ProjectHitLeavesRtpState ==
    FoundInProject =>
        /\ rtp_state = rtp_before
        /\ oracle_calls = 0
        /\ last_is_rtp_asset = "unset"
        /\ last_ret = (IF OverlayHit THEN Overlay ELSE Project)

\* game_rtp was {V2, V3}; "a", which V1 and V2 ship, was found in the project
\* and game_rtp was not narrowed to V2
C22_Witness ==
    /\ FoundInProject
    /\ ~rtp_before.disable_rtp
    /\ rtp_before.game_rtp = <<V2, V3>>
    /\ last_req.dir = Picture /\ last_req.name = <<"a">>
    /\ rtp_state.game_rtp = <<V2, V3>>
    /\ Len(rtp_state.detected_rtp) > 0

(***************************************************************************)
(* The order of the extensions                                             *)
(***************************************************************************)
\* a lookup with the list [.o, .g] in a directory of the tree
ExtLookupDone ==
    /\ pc = "found" /\ l_disk \in CasedDisks /\ l_req.exts = MUSIC_TYPES
    /\ Normalize(l_req.dir) \in DOMAIN l_tree.directories

\* the index of the directory that is searched
SearchedIndex == l_tree.sub_members[Normalize(l_req.dir)]

\* the extensions e, by position, for which normalized name + e is a key
MatchingExts ==
    {c \in DOMAIN l_req.exts :
        (Normalize(l_req.name) \o l_req.exts[c]) \in DOMAIN SearchedIndex}

\* the path of the entry indexed under name + extension c
IndexedPath(c) ==
    l_tree.directory_path \o <<SLASH>> \o l_tree.directories[Normalize(l_req.dir)]
        \o <<SLASH>> \o SearchedIndex[Normalize(l_req.name) \o l_req.exts[c]]

\* C23: a lookup with an ordered extension list returns the file of the
\* earliest extension e of the list such that normalized name + e is a key of
\* the searched directory's index, a later extension only if no earlier one
\* matches, and nothing if none matches
C23_EarliestExtensionWins ==
    ExtLookupDone =>
        IF MatchingExts = {} THEN l_ret = << >>
        ELSE l_ret = IndexedPath(First(MatchingExts))

\* only "T.g" is there: "t" with [.o, .g] resolves to it
C23_Witness ==
    /\ ExtLookupDone
    /\ l_req.dir = <<"d">> /\ l_req.name = <<"t">>
    /\ l_disk.entries[1].name = <<"D">>
    /\ l_disk.entries[1].entries = << File(<<"T", ".", "g">>) >>
    /\ l_disk.entries[2].name = <<"E">>
    /\ MatchingExts = {2}
    /\ l_ret = <<"G", "/", "D", "/", "T", ".", "g">>

(***************************************************************************)
(* The lookup of a name whose path is not canonical                        *)
(***************************************************************************)
\* dir/name of the last lookup, normalized, and its canonical form
CombinedPath ==
    MakePath(Normalize(IF l_req.translate THEN TranslationDir ELSE l_req.dir),
             Normalize(IF l_req.translate
                       THEN MakePath(MakePath(translation_id, l_req.dir), l_req.name)
                       ELSE l_req.name))

CanonicalPath == MakeCanonical(CombinedPath, 1)

PathCorrected ==
    /\ pc = "found" /\ l_disk \in TraversalDisks
    /\ ~(l_req.translate /\ translation_id = << >>)
    /\ CombinedPath # CanonicalPath

\* the root file of the tree named canon + the first extension that has one
RootLookup(canon) ==
    LET found == {c \in DOMAIN l_req.exts :
                     Normalize(canon \o l_req.exts[c]) \in DOMAIN l_tree.files}
    IN  IF found = {} THEN << >>
        ELSE l_tree.directory_path \o <<SLASH>>
                 \o l_tree.files[Normalize(canon \o l_req.exts[First(found)])]

\* the entry `name` of the directory `dir` of the tree, by the first extension
SplitLookup(dir, name) ==
    IF dir \notin DOMAIN l_tree.directories THEN << >>
    ELSE LET found == {c \in DOMAIN l_req.exts :
                          (name \o l_req.exts[c]) \in DOMAIN l_tree.sub_members[dir]}
         IN  IF found = {} THEN << >>
             ELSE l_tree.directory_path \o <<SLASH>> \o l_tree.directories[dir]
                      \o <<SLASH>>
                      \o l_tree.sub_members[dir][name \o l_req.exts[First(found)]]

\* the disk has a directory E that holds a file x
HasSiblingFile ==
    \E i \in DOMAIN l_disk.entries :
        /\ l_disk.entries[i] = Dir(<<"E">>, l_disk.entries[i].entries)
        /\ \E j \in DOMAIN l_disk.entries[i].entries :
               l_disk.entries[i].entries[j] = File(<<"x">>)

TraversalRequest ==
    /\ l_req.dir = <<"D">> /\ l_req.name = <<".", ".", "/", "E", "/", "x">>
    /\ l_req.exts = no_exts /\ ~l_req.translate

\* C25: when dir/name differs from its canonical form the lookup is redone
\* with the canonical form split at its first separator into directory and
\* name, and a canonical form without separator is looked up among the root
\* files of the tree; "../E/x" under D is the file x of the sibling E
C25_CanonicalSplitLookedUp ==
    PathCorrected =>
        /\ IF FirstSlash(CanonicalPath) = 0 THEN l_ret = RootLookup(CanonicalPath)
           ELSE l_ret = SplitLookup(SubSeq(CanonicalPath, 1, FirstSlash(CanonicalPath) - 1),
                                    SubSeq(CanonicalPath, FirstSlash(CanonicalPath) + 1,
                                           Len(CanonicalPath)))
        /\ (TraversalRequest /\ HasSiblingFile) => l_ret = <<"G", "/", "E", "/", "x">>

C25_Witness ==
    /\ PathCorrected
    /\ TraversalRequest
    /\ HasSiblingFile
    /\ CanonicalPath = <<"e", "/", "x">>
    /\ l_ret = <<"G", "/", "E", "/", "x">>

(***************************************************************************)
(* Candidate paths of InitRtpPaths that are no directory                   *)
(***************************************************************************)
\* the candidate paths that exist and are directories, in order
ValidInstalls(installs) == SelectSeq(installs, LAMBDA p : p.disk.is_directory)

\* the hits add_rtp_path keeps for the paths from the k-th valid one on
RECURSIVE DetectedFrom(_, _)
DetectedFrom(valid, k) ==
    IF k > Len(valid) THEN << >>
    ELSE BestHits(valid[k].detect, 1, CreateDirectoryTree(valid[k].disk, "RECURSIVE"), 0, 1)
             \o DetectedFrom(valid, k + 1)

RtpPathsAdded == last_op = "InitRtpPaths" /\ ~init_args.no_rtp

\* C26: add_rtp_path of a path that does not exist or is no directory changes
\* no field of rtp_state, and the candidate paths after it are still
\* processed: InitRtpPaths leaves what it leaves without these paths
C26_InvalidPathSkipped ==
    RtpPathsAdded =>
        /\ rtp_state = InitRtpPathsState(init_args.no_rtp, init_args.no_rtp_warnings,
                                         ValidInstalls(init_args.installs))
        /\ rtp_state.search_paths
               = [k \in DOMAIN ValidInstalls(init_args.installs) |->
                     CreateDirectoryTree(ValidInstalls(init_args.installs)[k].disk,
                                         "RECURSIVE")]
        /\ rtp_state.detected_rtp = DetectedFrom(ValidInstalls(init_args.installs), 1)
        /\ rtp_state.game_rtp = << >>
        /\ ~rtp_state.warning_broken_rtp_game_shown

\* the second of three candidate paths is no directory; the first and the
\* third are added
C26_Witness ==
    /\ RtpPathsAdded
    /\ Len(init_args.installs) = 3
    /\ ~init_args.installs[2].disk.is_directory
    /\ Len(rtp_state.search_paths) = 2
    /\ rtp_state.search_paths[1].directory_path = <<"R", "1">>
    /\ rtp_state.search_paths[2].directory_path = <<"R", "2">>
    /\ Len(rtp_state.detected_rtp) = 3

(***************************************************************************)
(* The index a lookup needs                                                *)
(***************************************************************************)
\* C27: in every tree FindFile(tree, dir, ...) can be called on, built by
\* CreateDirectoryTree in any mode or by CreateSaveDirectoryTree, every key of
\* tree.directories is a key of tree.sub_members
C27_DirectoriesHaveSubMembers ==
    l_tree.valid => DOMAIN l_tree.directories \subseteq DOMAIN l_tree.sub_members

(***************************************************************************)
(* The order of the searches of rtp_lookup                                 *)
(***************************************************************************)
\* the pairs whose installed RTP holds the entry LookupRtpToRtp names
CrossHits ==
    {pair \in CrossPairs :
        /\ CrossLookup(pair).entry # << >>
        /\ CrossFile(pair, CrossLookup(pair).entry) # << >>}

\* pair p is tried before pair q: detected_rtp outer, game_rtp inner
TriedBefore(p, q) == p[1] < q[1] \/ (p[1] = q[1] /\ p[2] <= q[2])

FirstCrossHit(hits) == CHOOSE p \in hits : \A q \in hits : TriedBefore(p, q)

\* C24: the search across all RTP returns the first hit when it goes through
\* detected_rtp in discovery order and, for each, through game_rtp; only if
\* no pair hits does rtp_lookup fall back to the direct search, which returns
\* the hit of the first search path, in discovery order, that has one
C24_FirstHitInSearchOrder ==
    RtpLookupDone =>
        IF CrossHits # {}
        THEN last_ret = CrossFile(FirstCrossHit(CrossHits),
                                  CrossLookup(FirstCrossHit(CrossHits)).entry)
        ELSE last_ret = DirectSearchResult

\* game_rtp is {V1, V3} and the first installed RTP holds the sound "c" of V1
\* and, as "k", the sound "c" of V3: the entry of the first variant is returned
C24_Witness ==
    /\ RtpLookupDone
    /\ rtp_state.game_rtp = <<V1, V3>>
    /\ last_req.dir = Sound /\ last_req.name = <<"c">>
    /\ Cardinality(CrossHits) = 2
    /\ last_ret = <<"R", "1", "/", "S", "o", "u", "n", "d", "/", "c", ".", "o">>

====
